---- MODULE Spec2Model ----
(***************************************************************************)
(* Model of seq_wall_ultra_nav_sync_fix.py: sequence discovery             *)
(* (find_sequences), the two-tier thumbnail cache (ThumbCache) and the     *)
(* visibility-driven tick loop of SequenceWallApp with its SeqTile jobs.   *)
(*                                                                         *)
(* Strings are tuples of one-character strings, so that the regular        *)
(* expressions, lower(), int() and the sort keys are computed character by *)
(* character.                                                              *)
(***************************************************************************)
EXTENDS Integers, Sequences, FiniteSets, TLC

VARIABLES
    fs,            \* directory -> listing (sequence of file names), as os.walk yields it
    corrupt,       \* the source image files Image.open cannot read
    disk,          \* the files under .seqwall_cache: set of <<disk path, file>>
    scanned,       \* the matches the loop of lines 42-54 made in a checked find_sequences call
    sequences,     \* SequenceWallApp.sequences
    current_root,  \* SequenceWallApp.current_root
    thumb_cache,   \* SequenceWallApp.thumb_cache: index into caches, NoCache for None
    caches,        \* every ThumbCache constructed so far: [root_dir, size, mem]
    tiles,         \* SequenceWallApp.tiles: the SeqTile objects of the grid
    jobs,          \* the ThreadPoolExecutor's work items, in submission order
    tile_var,      \* SequenceWallApp.tile_var
    animate_var,   \* SequenceWallApp.animate_var
    frame_step,    \* SequenceWallApp.frame_step
    view,          \* <<y0, y1>> as _visible_y_range returns it
    messagebox,    \* TRUE when the last load_from_path ended in messagebox.showerror
    ticked,        \* history: TRUE when the step that led here was a _tick
    stored         \* history: the last ThumbCache.put of every <<cache, path, frame_idx>>

vars == <<fs, corrupt, disk, scanned, sequences, current_root, thumb_cache, caches,
          tiles, jobs, tile_var, animate_var, frame_step, view, messagebox, ticked, stored>>

\* what a handler that only touches one of the entry fields leaves alone
appState == <<fs, corrupt, disk, scanned, sequences, current_root, thumb_cache, caches,
              tiles, jobs, messagebox, stored>>

-----------------------------------------------------------------------------
(* Characters *)

Digits == {"0", "1", "2", "3", "4", "5", "6", "7", "8", "9"}

\* the characters of the class [._-] of the first pattern
Separators == {".", "_", "-"}

\* ASCII, in code order, of the characters that occur in the modelled names
AsciiOrder ==
    <<"#", "-", ".", "/",
      "0", "1", "2", "3", "4", "5", "6", "7", "8", "9",
      "A", "B", "G", "J", "N", "P", "S", "T",
      "[", "]", "_",
      "a", "b", "c", "d", "e", "f", "g", "h", "i", "j", "k", "l", "m",
      "n", "o", "p", "q", "r", "s", "t", "u", "v", "w", "x", "y", "z">>

CharCode(c) == CHOOSE i \in 1..Len(AsciiOrder) : AsciiOrder[i] = c

\* str.lower() on one character
LowerChar(c) ==
    CASE c = "A" -> "a" [] c = "B" -> "b" [] c = "G" -> "g" [] c = "J" -> "j"
      [] c = "N" -> "n" [] c = "P" -> "p" [] c = "S" -> "s" [] c = "T" -> "t"
      [] OTHER -> c

Lower(s) == [i \in 1..Len(s) |-> LowerChar(s[i])]

\* int() of one decimal digit
DigitVal(c) == CharCode(c) - CharCode("0")

\* int(idx_str)
RECURSIVE ParseInt(_)
ParseInt(s) ==
    IF s = <<>> THEN 0
    ELSE 10 * ParseInt(SubSeq(s, 1, Len(s) - 1)) + DigitVal(s[Len(s)])

\* s < t for Python strings (lexicographic by code point)
RECURSIVE StrLess(_, _)
StrLess(s, t) ==
    IF t = <<>> THEN FALSE
    ELSE IF s = <<>> THEN TRUE
    ELSE IF s[1] # t[1] THEN CharCode(s[1]) < CharCode(t[1])
    ELSE StrLess(Tail(s), Tail(t))

\* os.path.join(dirpath, name)
PathJoin(d, name) == d \o <<"/">> \o name

-----------------------------------------------------------------------------
(* SEQ_PATTERNS and the matching loop of find_sequences *)

\* the alternation png|jpg|jpeg|bmp|tif|tiff
ImageExts ==
    { <<"p", "n", "g">>, <<"j", "p", "g">>, <<"j", "p", "e", "g">>,
      <<"b", "m", "p">>, <<"t", "i", "f">>, <<"t", "i", "f", "f">> }

\* SUPPORTED_EXTS and the candidates filter f.lower().endswith(SUPPORTED_EXTS)
EndsWith(s, suf) ==
    /\ Len(s) >= Len(suf)
    /\ SubSeq(s, Len(s) - Len(suf) + 1, Len(s)) = suf

IsCandidate(f) == \E e \in ImageExts : EndsWith(Lower(f), <<".">> \o e)

MinDigits == 3
MaxDigits == 6

AllDigits(s) == \A i \in 1..Len(s) : s[i] \in Digits

\* The ways pattern number pat can split f into prefix, [separator], index,
\* '.', ext (re.IGNORECASE on the extension): <<length of prefix, digits, ext>>.
PatternSplits(pat, f) ==
    { sp \in (0..Len(f)) \X (MinDigits..MaxDigits) \X ImageExts :
        LET p == sp[1]
            d == sp[2]
            e == sp[3]
            sepLen == IF pat = 1 THEN 1 ELSE 0
        IN  /\ p + sepLen + d + 1 + Len(e) = Len(f)
            /\ (pat = 1 => f[p + 1] \in Separators)
            /\ AllDigits(SubSeq(f, p + sepLen + 1, p + sepLen + d))
            /\ f[p + sepLen + d + 1] = "."
            /\ Lower(SubSeq(f, p + sepLen + d + 2, Len(f))) = e }

\* pat.match(f): the lazy prefix (.*?) takes the shortest prefix that lets the
\* rest of the pattern match.  None is the failed match.
None == [pat |-> 0]

PatMatch(pat, f) ==
    LET S == PatternSplits(pat, f)
    IN  IF S = {} THEN None
        ELSE LET sp == CHOOSE x \in S : \A y \in S : x[1] <= y[1]
                 sepLen == IF pat = 1 THEN 1 ELSE 0
                 idx_str == SubSeq(f, sp[1] + sepLen + 1, sp[1] + sepLen + sp[2])
             IN  [pat |-> pat,
                  prefix |-> SubSeq(f, 1, sp[1]),
                  ext |-> sp[3],
                  idx_str |-> idx_str,
                  idx |-> ParseInt(idx_str),
                  width |-> Len(idx_str),
                  f |-> f]

\* for pat in SEQ_PATTERNS: first match wins
MatchName(f) ==
    IF PatMatch(1, f) # None THEN PatMatch(1, f) ELSE PatMatch(2, f)

\* what the loop of lines 42-54 does with one file name of the listing
Classify(f) ==
    IF IsCandidate(f) THEN MatchName(f) ELSE None

\* the matches of one directory, in listing order
MatchesOf(listing) ==
    SelectSeq([i \in 1..Len(listing) |-> Classify(listing[i])],
              LAMBDA m : m # None)

\* temp.setdefault((prefix, ext), []): the group keys in order of first insertion
RECURSIVE GroupKeys(_)
GroupKeys(ms) ==
    IF ms = <<>> THEN <<>>
    ELSE LET front == GroupKeys(SubSeq(ms, 1, Len(ms) - 1))
             k == <<ms[Len(ms)].prefix, ms[Len(ms)].ext>>
         IN  IF \E i \in 1..Len(front) : front[i] = k THEN front
             ELSE Append(front, k)

\* temp[(prefix, ext)]: the items of one group, in listing order
GroupItems(ms, k) ==
    SelectSeq(ms, LAMBDA m : m.prefix = k[1] /\ m.ext = k[2])

\* items.sort(key=lambda x: x[0]): stable, ascending by idx
InsertByIdx(sorted, m) ==
    LET n == Cardinality({i \in 1..Len(sorted) : sorted[i].idx <= m.idx})
    IN  SubSeq(sorted, 1, n) \o <<m>> \o SubSeq(sorted, n + 1, Len(sorted))

RECURSIVE SortByIdx(_)
SortByIdx(items) ==
    IF items = <<>> THEN <<>>
    ELSE InsertByIdx(SortByIdx(SubSeq(items, 1, Len(items) - 1)), items[Len(items)])

\* the threshold of line 57
MinFrames == 3

\* the threshold taken one too low
KeepGroupPair(items) == Len(items) >= MinFrames - 1

KeepGroup(items) == Len(items) >= MinFrames

\* the SequenceItem of lines 58-63 for one accepted group
MakeSequenceItem(dirpath, k, items) ==
    [key |-> PathJoin(dirpath, k[1] \o <<"[", "#", "#", "]", ".">> \o k[2]),
     folder |-> dirpath,
     prefix |-> k[1],
     ext |-> k[2],
     frames |-> [i \in 1..Len(items) |-> PathJoin(dirpath, items[i].f)],
     digits |-> items[1].width]

\* sequences[key] = SequenceItem(...) on an insertion-ordered dict
DictPut(d, item) ==
    IF \E i \in 1..Len(d) : d[i].key = item.key
    THEN [i \in 1..Len(d) |-> IF d[i].key = item.key THEN item ELSE d[i]]
    ELSE Append(d, item)

\* lines 55-63 for one directory: every group, sorted, kept if long enough
RECURSIVE AddGroups(_, _, _, _)
AddGroups(d, dirpath, ms, keys) ==
    IF keys = <<>> THEN d
    ELSE LET items == SortByIdx(GroupItems(ms, Head(keys)))
             d2 == IF KeepGroup(items)
                   THEN DictPut(d, MakeSequenceItem(dirpath, Head(keys), items))
                   ELSE d
         IN  AddGroups(d2, dirpath, ms, Tail(keys))

\* sorted(sequences.values(), key=lambda s: s.key.lower()): stable
InsertByKey(sorted, item) ==
    LET n == Cardinality({i \in 1..Len(sorted) :
                            ~StrLess(Lower(item.key), Lower(sorted[i].key))})
    IN  SubSeq(sorted, 1, n) \o <<item>> \o SubSeq(sorted, n + 1, Len(sorted))

RECURSIVE SortByKey(_)
SortByKey(d) ==
    IF d = <<>> THEN <<>>
    ELSE InsertByKey(SortByKey(SubSeq(d, 1, Len(d) - 1)), d[Len(d)])

-----------------------------------------------------------------------------
(* The directory tree os.walk sees *)

RootDir == <<"R">>
SubDir == <<"R", "/", "s", "u", "b">>
Dirs == {RootDir, SubDir}

\* the sub-directories os.walk descends into
Children(d) == IF d = RootDir THEN <<SubDir>> ELSE <<>>

\* os.walk(root), top-down; a path that is no directory yields nothing
Walk(root) ==
    IF root \notin Dirs THEN <<>>
    ELSE <<root>> \o Children(root)

RECURSIVE ScanDirs(_, _, _)
ScanDirs(d, dirs, fsys) ==
    IF dirs = <<>> THEN d
    ELSE LET ms == MatchesOf(fsys[Head(dirs)])
         IN  ScanDirs(AddGroups(d, Head(dirs), ms, GroupKeys(ms)), Tail(dirs), fsys)

find_sequences(root, fsys) == SortByKey(ScanDirs(<<>>, Walk(root), fsys))

\* every match the loop of lines 42-54 made during find_sequences(root)
RECURSIVE MatchLog(_, _)
MatchLog(dirs, fsys) ==
    IF dirs = <<>> THEN <<>>
    ELSE MatchesOf(fsys[Head(dirs)]) \o MatchLog(Tail(dirs), fsys)

-----------------------------------------------------------------------------
(* ThumbCache *)

NoCache == 0
NoImage == [src |-> <<>>]
NoRoot == <<>>

\* ThumbCache.__init__
NewThumbCache(root_dir, size) ==
    [root_dir |-> root_dir, size |-> size, mem |-> {}, live |-> TRUE]

\* ThumbCache.key
Key(c, path, frame_idx) == <<path, c.size, frame_idx>>

\* disk_path with the size left out of the hashed string
DiskPathNoSize(c, path, frame_idx) == <<c.root_dir, <<path, 0, frame_idx>>>>

\* ThumbCache.disk_path: the file name is the SHA-1 of "path|size|frame_idx",
\* kept here as the hashed triple itself (collisions are not modelled),
\* under the cache directory of the root.
DiskPath(c, path, frame_idx) == <<c.root_dir, <<path, c.size, frame_idx>>>>

\* dict lookups on the memory tier and file lookups on the disk tier
Has(m, k) == \E e \in m : e[1] = k
Lookup(m, k) == (CHOOSE e \in m : e[1] = k)[2]
Store(m, k, v) == {e \in m : e[1] # k} \cup {<<k, v>>}

\* a file of the disk tier: a readable PNG of an image, or an unreadable one
GoodFile(img) == [ok |-> TRUE, img |-> img]
BadFile == [ok |-> FALSE, img |-> NoImage]

\* get that takes whatever file is on disk for a readable image
CacheGetDiskUnchecked(cs, dsk, c, path, frame_idx) ==
    LET k == <<path, cs[c].size, frame_idx>>
        dp == <<cs[c].root_dir, k>>
    IN  IF \E e \in cs[c].mem : e[1] = k
        THEN [ph |-> (CHOOSE e \in cs[c].mem : e[1] = k)[2], tier |-> "mem", caches |-> cs]
        ELSE IF \E e \in dsk : e[1] = dp
        THEN [ph |-> (CHOOSE e \in dsk : e[1] = dp)[2].img, tier |-> "disk",
              caches |-> [cs EXCEPT ![c].mem =
                             {e \in @ : e[1] # k} \cup {<<k, (CHOOSE e \in dsk : e[1] = dp)[2].img>>}]]
        ELSE [ph |-> NoImage, tier |-> "none", caches |-> cs]

\* get with the disk tier left out
CacheGetMemOnly(cs, dsk, c, path, frame_idx) ==
    LET k == <<path, cs[c].size, frame_idx>>
    IN  IF \E e \in cs[c].mem : e[1] = k
        THEN [ph |-> (CHOOSE e \in cs[c].mem : e[1] = k)[2], tier |-> "mem", caches |-> cs]
        ELSE [ph |-> NoImage, tier |-> "none", caches |-> cs]

\* ThumbCache.get on cache number c: the photo returned (NoImage for None),
\* the tier that served it and the caches afterwards
CacheGet(cs, dsk, c, path, frame_idx) ==
    LET k == Key(cs[c], path, frame_idx)
        dp == DiskPath(cs[c], path, frame_idx)
    IN  IF Has(cs[c].mem, k)
        THEN [ph |-> Lookup(cs[c].mem, k), tier |-> "mem", caches |-> cs]
        ELSE IF Has(dsk, dp) /\ Lookup(dsk, dp).ok
        THEN [ph |-> Lookup(dsk, dp).img, tier |-> "disk",
              caches |-> [cs EXCEPT ![c].mem = Store(@, k, Lookup(dsk, dp).img)]]
        ELSE [ph |-> NoImage, tier |-> "none", caches |-> cs]

\* what image_rgb.save(dp) can do to the disk tier: write the file, fail
\* before anything is written, or fail leaving an unreadable file
SaveOutcomes == {"saved", "failed", "partial"}

DiskAfterSave(dsk, dp, img, outcome) ==
    CASE outcome = "saved" -> Store(dsk, dp, GoodFile(img))
      [] outcome = "partial" -> Store(dsk, dp, BadFile)
      [] OTHER -> dsk

\* put that starts the memory tier afresh with the new entry
CachePutMemOnlyLatest(cs, c, path, frame_idx, img) ==
    [cs EXCEPT ![c].mem = {<<(<<path, cs[c].size, frame_idx>>), img>>}]

\* put that leaves the memory tier to the disk write
CachePutMemSkipped(cs, c, path, frame_idx, img) == cs

\* ThumbCache.put on cache number c
CachePutMem(cs, c, path, frame_idx, img) ==
    [cs EXCEPT ![c].mem = Store(@, Key(cs[c], path, frame_idx), img)]

CachePutDisk(cs, dsk, c, path, frame_idx, img, outcome) ==
    DiskAfterSave(dsk, DiskPath(cs[c], path, frame_idx), img, outcome)

-----------------------------------------------------------------------------
(* SeqTile *)

\* the floor max(40, ...) of lines 387 and 397
MinTileSize == 40

Max(a, b) == IF a >= b THEN a ELSE b

\* SeqTile.__init__: a fresh tile of the grid
NewTile(size, cache) ==
    [size |-> size, idx |-> 0, running |-> TRUE, cache |-> cache,
     loading_first |-> FALSE, first_loaded |-> FALSE, shown |-> "blank"]

\* a work item self.pool.submit(self._load_and_cache, path, frame_idx) of
\* tile number t; once the grid is rebuilt the job keeps its (destroyed) tile
\* object alive: tile = 0, with that object's size and cache in osize, ocache
NewJob(t, path, frame_idx) ==
    [tile |-> t, path |-> path, frame_idx |-> frame_idx, pc |-> "queued",
     box |-> 0, csz |-> 0, osize |-> 0, ocache |-> NoCache]

\* the image _load_and_cache composes: source, resize box and canvas size
Rendered(path, box, csz) == [src |-> path, box |-> box, size |-> csz]

\* ensure_first_frame_loaded that does not look at loading_first
EnsureFirstFrameLoadedUnguarded(w, dsk, seqs, i) ==
    LET t == w.tiles[i]
        frames == seqs[i].frames
    IN  IF t.first_loaded \/ frames = <<>> THEN w
        ELSE LET path == frames[1]
                 g == IF t.cache # NoCache
                      THEN CacheGet(w.caches, dsk, t.cache, path, 0)
                      ELSE [ph |-> NoImage, tier |-> "none", caches |-> w.caches]
             IN  IF g.ph # NoImage
                 THEN [w EXCEPT !.tiles[i] = [t EXCEPT !.shown = "photo",
                                                       !.first_loaded = TRUE,
                                                       !.loading_first = FALSE],
                                !.caches = g.caches]
                 ELSE [w EXCEPT !.tiles[i] = [t EXCEPT !.loading_first = TRUE],
                                !.caches = g.caches,
                                !.jobs = Append(@, NewJob(i, path, 0))]

\* ensure_first_frame_loaded that decodes in the caller on a cache miss, as
\* the branch of line 519 does for a tile without a pool
EnsureFirstFrameLoadedInline(w, dsk, seqs, i) ==
    LET t == w.tiles[i]
        frames == seqs[i].frames
    IN  IF t.first_loaded \/ t.loading_first \/ frames = <<>> THEN w
        ELSE LET path == frames[1]
                 g == IF t.cache # NoCache
                      THEN CacheGet(w.caches, dsk, t.cache, path, 0)
                      ELSE [ph |-> NoImage, tier |-> "none", caches |-> w.caches]
             IN  IF g.ph # NoImage
                 THEN [w EXCEPT !.tiles[i] = [t EXCEPT !.shown = "photo",
                                                       !.first_loaded = TRUE,
                                                       !.loading_first = FALSE],
                                !.caches = g.caches]
                 ELSE [w EXCEPT !.tiles[i] = [t EXCEPT !.shown = "photo",
                                                       !.first_loaded = TRUE,
                                                       !.loading_first = FALSE],
                                !.caches =
                                    IF t.cache = NoCache THEN g.caches
                                    ELSE [g.caches EXCEPT ![t.cache].mem =
                                            @ \cup {<<(<<path, g.caches[t.cache].size, 0>>),
                                                      Rendered(path, t.size, t.size)>>}]]

\* SeqTile.ensure_first_frame_loaded on tile i of the world
\* w = [tiles, caches, jobs]
EnsureFirstFrameLoaded(w, dsk, seqs, i) ==
    LET t == w.tiles[i]
        frames == seqs[i].frames
    IN  IF t.first_loaded \/ t.loading_first \/ frames = <<>> THEN w
        ELSE LET path == frames[1]
                 g == IF t.cache # NoCache
                      THEN CacheGet(w.caches, dsk, t.cache, path, 0)
                      ELSE [ph |-> NoImage, tier |-> "none", caches |-> w.caches]
             IN  IF g.ph # NoImage
                 THEN [w EXCEPT !.tiles[i] = [t EXCEPT !.shown = "photo",
                                                       !.first_loaded = TRUE,
                                                       !.loading_first = FALSE],
                                !.caches = g.caches]
                 ELSE [w EXCEPT !.tiles[i] = [t EXCEPT !.loading_first = TRUE],
                                !.caches = g.caches,
                                !.jobs = Append(@, NewJob(i, path, 0))]

\* step that always moves one frame on
StepTileByOne(w, dsk, seqs, i, step) ==
    LET t == w.tiles[i]
        frames == seqs[i].frames
    IN  IF ~t.running \/ frames = <<>> THEN w
        ELSE IF ~t.first_loaded THEN EnsureFirstFrameLoaded(w, dsk, seqs, i)
        ELSE LET idx == (t.idx + 1) % Len(frames)
                 path == frames[idx + 1]
                 g == IF t.cache # NoCache
                      THEN CacheGet(w.caches, dsk, t.cache, path, idx)
                      ELSE [ph |-> NoImage, tier |-> "none", caches |-> w.caches]
             IN  IF g.ph # NoImage
                 THEN [w EXCEPT !.tiles[i] = [t EXCEPT !.idx = idx, !.shown = "photo"],
                                !.caches = g.caches]
                 ELSE [w EXCEPT !.tiles[i] = [t EXCEPT !.idx = idx],
                                !.caches = g.caches,
                                !.jobs = Append(@, NewJob(i, path, idx))]

\* step that does not look at the running flag
StepTileAlways(w, dsk, seqs, i, step) ==
    LET t == w.tiles[i]
        frames == seqs[i].frames
    IN  IF frames = <<>> THEN w
        ELSE IF ~t.first_loaded THEN EnsureFirstFrameLoaded(w, dsk, seqs, i)
        ELSE LET idx == (t.idx + step) % Len(frames)
                 path == frames[idx + 1]
                 g == IF t.cache # NoCache
                      THEN CacheGet(w.caches, dsk, t.cache, path, idx)
                      ELSE [ph |-> NoImage, tier |-> "none", caches |-> w.caches]
             IN  IF g.ph # NoImage
                 THEN [w EXCEPT !.tiles[i] = [t EXCEPT !.idx = idx, !.shown = "photo"],
                                !.caches = g.caches]
                 ELSE [w EXCEPT !.tiles[i] = [t EXCEPT !.idx = idx],
                                !.caches = g.caches,
                                !.jobs = Append(@, NewJob(i, path, idx))]

\* SeqTile.step on tile i
StepTile(w, dsk, seqs, i, step) ==
    LET t == w.tiles[i]
        frames == seqs[i].frames
    IN  IF ~t.running \/ frames = <<>> THEN w
        ELSE IF ~t.first_loaded THEN EnsureFirstFrameLoaded(w, dsk, seqs, i)
        ELSE LET idx == (t.idx + step) % Len(frames)
                 path == frames[idx + 1]
                 g == IF t.cache # NoCache
                      THEN CacheGet(w.caches, dsk, t.cache, path, idx)
                      ELSE [ph |-> NoImage, tier |-> "none", caches |-> w.caches]
             IN  IF g.ph # NoImage
                 THEN [w EXCEPT !.tiles[i] = [t EXCEPT !.idx = idx, !.shown = "photo"],
                                !.caches = g.caches]
                 ELSE [w EXCEPT !.tiles[i] = [t EXCEPT !.idx = idx],
                                !.caches = g.caches,
                                !.jobs = Append(@, NewJob(i, path, idx))]

\* set_size as a rebuild of the tile would leave it: the first frame to be
\* loaded again
SetSizeFresh(t, size, new_cache) ==
    [t EXCEPT !.size = size,
              !.cache = IF new_cache # NoCache THEN new_cache ELSE @,
              !.first_loaded = FALSE]

\* SeqTile.set_size
SetSize(t, size, new_cache) ==
    [t EXCEPT !.size = size,
              !.cache = IF new_cache # NoCache THEN new_cache ELSE @]

\* SeqTile._toggle
ToggleTile(t) == [t EXCEPT !.running = ~@]

-----------------------------------------------------------------------------
(* The grid geometry the tick reads with winfo_y / winfo_height *)

\* the column count of the grid: cols_var at the low end of its spinbox (line 185)
Cols == 1

\* pady of tile.grid (line 391) and the height a tile adds to its size (line 438)
PadY == 4
TileExtra == 32

TileHeight(t) == t.size + TileExtra
TileY(ts, i) == PadY + ((i - 1) \div Cols) * (TileHeight(ts[i]) + 2 * PadY)

\* the visibility test with its second comparison left out
VisibleAbove(ts, i, vw) == TileY(ts, i) < vw[2]

\* the test of line 439
Visible(ts, i, vw) ==
    /\ TileY(ts, i) < vw[2]
    /\ TileY(ts, i) + TileHeight(ts[i]) > vw[1]

-----------------------------------------------------------------------------
(* SequenceWallApp._tick *)

\* the body of the loop of lines 436-442 for tile i
\* the tick with the first-frame load under the play flag as well
TickTileWhenPlaying(w, dsk, seqs, i, vw, play, step) ==
    IF Visible(w.tiles, i, vw) /\ play
    THEN StepTile(EnsureFirstFrameLoaded(w, dsk, seqs, i), dsk, seqs, i, step)
    ELSE w

TickTile(w, dsk, seqs, i, vw, play, step) ==
    IF Visible(w.tiles, i, vw)
    THEN LET w1 == EnsureFirstFrameLoaded(w, dsk, seqs, i)
         IN  IF play THEN StepTile(w1, dsk, seqs, i, step) ELSE w1
    ELSE w

RECURSIVE TickFrom(_, _, _, _, _, _, _)
TickFrom(w, dsk, seqs, i, vw, play, step) ==
    IF i > Len(w.tiles) THEN w
    ELSE TickFrom(TickTile(w, dsk, seqs, i, vw, play, step),
                  dsk, seqs, i + 1, vw, play, step)

TickResult ==
    TickFrom([tiles |-> tiles, caches |-> caches, jobs |-> jobs],
             disk, sequences, 1, view, animate_var, Max(1, frame_step))

-----------------------------------------------------------------------------
(* Bounds and input sets *)

\* most work items held by the pool at a time
MaxJobs == 2
\* most ThumbCache objects constructed in a run
MaxCaches == 3
\* most file names in a drawn directory listing
MaxFiles == 3

\* max_workers of the pool (line 164): max(2, cpu_count // 2)
MaxWorkers == 2

\* the default of the tile size entry (line 157)
DefaultTileSize == 200
\* the default of the frame step entry (line 159)
DefaultFrameStep == 2

\* values the tile size entry takes: the default and one below the floor of 40
TileVarValues == {30, DefaultTileSize}
\* values of the frame step entry: below the floor of max(1, ...), the
\* default, and the frame count of the sequences of the tree
StepValues == {0, DefaultFrameStep, 3}
\* visible ranges the canvas is scrolled to: the first row only, from the
\* second row on, everything
ViewRanges == {<<0, 50>>, <<240, 1000>>, <<0, 1000>>}

Name(prefix, digits, ext) == prefix \o digits \o <<".">> \o ext

png == <<"p", "n", "g">>
jpg == <<"j", "p", "g">>

\* the tree the application runs on: R/a_001.png .. a_003.png and
\* R/sub/b001.jpg .. b003.jpg
AppTree ==
    [d \in Dirs |->
        IF d = RootDir
        THEN << Name(<<"a", "_">>, <<"0", "0", "1">>, png),
                Name(<<"a", "_">>, <<"0", "0", "2">>, png),
                Name(<<"a", "_">>, <<"0", "0", "3">>, png) >>
        ELSE << Name(<<"b">>, <<"0", "0", "1">>, jpg),
                Name(<<"b">>, <<"0", "0", "2">>, jpg),
                Name(<<"b">>, <<"0", "0", "3">>, jpg) >>]

\* what the path entry can hold when "load" is pressed: nothing, a path that
\* is no directory, or a directory of the tree
PathInputs == {<<>>, <<"X">>, RootDir, SubDir}

\* the unreadable source files a run can start with: none, or a first frame
CorruptChoices ==
    { {}, {PathJoin(RootDir, AppTree[RootDir][1])}, {PathJoin(SubDir, AppTree[SubDir][1])},
      {PathJoin(SubDir, AppTree[SubDir][3])} }

-----------------------------------------------------------------------------
(* SequenceWallApp *)

\* SequenceWallApp.__init__: the defaults of lines 151-163
Init ==
    /\ fs = AppTree
    /\ corrupt \in CorruptChoices
    /\ disk = {}
    /\ scanned = <<>>
    /\ sequences = <<>>
    /\ current_root = NoRoot
    /\ thumb_cache = NoCache
    /\ caches = <<>>
    /\ tiles = <<>>
    /\ jobs = <<>>
    /\ tile_var = DefaultTileSize
    /\ animate_var = FALSE
    /\ frame_step = DefaultFrameStep
    /\ view = <<0, 1000>>
    /\ messagebox = FALSE
    /\ ticked = FALSE
    /\ stored = {}

\* the jobs of the tiles of a grid that is being destroyed keep running on
\* the destroyed tile objects
Orphaned(js, ts) ==
    [n \in 1..Len(js) |->
        IF js[n].tile = 0 THEN js[n]
        ELSE [js[n] EXCEPT !.tile = 0,
                           !.osize = ts[js[n].tile].size,
                           !.ocache = ts[js[n].tile].cache]]

\* A ThumbCache that neither the application, a tile of the grid nor a tile
\* kept alive by a work item refers to is freed by the interpreter.
Referenced(c, tc, ts, js) ==
    \/ tc = c
    \/ \E i \in 1..Len(ts) : ts[i].cache = c
    \/ \E n \in 1..Len(js) : js[n].tile = 0 /\ js[n].ocache = c

Collect(cs, tc, ts, js) ==
    [c \in 1..Len(cs) |->
        IF Referenced(c, tc, ts, js) THEN cs[c]
        ELSE [cs[c] EXCEPT !.mem = {}, !.live = FALSE]]

\* _populate_tiles: one SeqTile per sequence
PopulateTiles(seqs, size, cache) ==
    [i \in 1..Len(seqs) |-> NewTile(size, cache)]

\* load_from_path that takes p for the current root before it tests it
LoadFromPathRootFirst(p) ==
    /\ ticked' = FALSE
    /\ current_root' = p
    /\ IF p # <<>> /\ p \in Dirs
       THEN /\ Len(caches) < MaxCaches
            /\ sequences' = find_sequences(p, fs)
            /\ thumb_cache' = Len(caches) + 1
            /\ tiles' = PopulateTiles(sequences', Max(MinTileSize, tile_var), thumb_cache')
            /\ jobs' = Orphaned(jobs, tiles)
            /\ caches' = Collect(Append(caches, NewThumbCache(p, tile_var)),
                                 thumb_cache', tiles', jobs')
            /\ messagebox' = FALSE
       ELSE /\ messagebox' = TRUE
            /\ UNCHANGED <<sequences, thumb_cache, caches, tiles, jobs>>
    /\ UNCHANGED <<fs, corrupt, disk, scanned, tile_var, animate_var, frame_step, view,
                   stored>>

\* load_from_path with p in the path entry (_scan_and_show, _populate_tiles)
LoadFromPath(p) ==
    /\ ticked' = FALSE
    /\ IF p # <<>> /\ p \in Dirs
       THEN /\ Len(caches) < MaxCaches
            /\ current_root' = p
            /\ sequences' = find_sequences(p, fs)
            /\ thumb_cache' = Len(caches) + 1
            /\ tiles' = PopulateTiles(sequences', Max(MinTileSize, tile_var), thumb_cache')
            /\ jobs' = Orphaned(jobs, tiles)
            /\ caches' = Collect(Append(caches, NewThumbCache(p, tile_var)),
                                 thumb_cache', tiles', jobs')
            /\ messagebox' = FALSE
       ELSE /\ messagebox' = TRUE
            /\ UNCHANGED <<sequences, current_root, thumb_cache, caches, tiles, jobs>>
    /\ UNCHANGED <<fs, corrupt, disk, scanned, tile_var, animate_var, frame_step, view,
                   stored>>

\* the tile size entry is edited without the spinbox command running
TypeTileSize ==
    /\ ticked' = FALSE
    /\ \E v \in TileVarValues : tile_var' = v
    /\ UNCHANGED <<appState, animate_var, frame_step, view>>

\* on_tile_size_change, run by the spinbox after it set tile_var to v
OnTileSizeChange(v) ==
    LET size == Max(MinTileSize, v)
    IN  /\ ticked' = FALSE
        /\ tile_var' = v
        /\ IF current_root # NoRoot
           THEN /\ Len(caches) < MaxCaches
                /\ thumb_cache' = Len(caches) + 1
                /\ tiles' = [i \in 1..Len(tiles) |-> SetSize(tiles[i], size, thumb_cache')]
                /\ caches' = Collect(Append(caches, NewThumbCache(current_root, size)),
                                     thumb_cache', tiles', jobs)
           ELSE /\ tiles' = [i \in 1..Len(tiles) |-> SetSize(tiles[i], size, thumb_cache)]
                /\ UNCHANGED <<caches, thumb_cache>>
        /\ UNCHANGED <<fs, corrupt, disk, scanned, sequences, current_root, jobs,
                       animate_var, frame_step, view, messagebox, stored>>

TileSizeChange == \E v \in TileVarValues : OnTileSizeChange(v)

\* set_animate and the "play all" check button
SetAnimate ==
    /\ ticked' = FALSE
    /\ \E flag \in BOOLEAN : animate_var' = flag
    /\ UNCHANGED <<appState, tile_var, frame_step, view>>

\* the frame step spinbox
SetFrameStep ==
    /\ ticked' = FALSE
    /\ \E n \in StepValues : frame_step' = n
    /\ UNCHANGED <<appState, tile_var, animate_var, view>>

\* scrolling the canvas changes what _visible_y_range returns
Scroll ==
    /\ ticked' = FALSE
    /\ \E v \in ViewRanges : view' = v
    /\ UNCHANGED <<appState, tile_var, animate_var, frame_step>>

\* a click on tile i: SeqTile._toggle
Toggle(i) ==
    /\ ticked' = FALSE
    /\ tiles' = [tiles EXCEPT ![i] = ToggleTile(@)]
    /\ UNCHANGED <<fs, corrupt, disk, scanned, sequences, current_root, thumb_cache,
                   caches, jobs, tile_var, animate_var, frame_step, view, messagebox,
                   stored>>

Click == \E i \in 1..Len(tiles) : Toggle(i)

\* _tick, run by _schedule_tick
Tick ==
    LET w == TickResult
    IN  /\ Len(w.jobs) <= MaxJobs
        /\ ticked' = TRUE
        /\ tiles' = w.tiles
        /\ caches' = w.caches
        /\ jobs' = w.jobs
        /\ UNCHANGED <<fs, corrupt, disk, scanned, sequences, current_root,
                       thumb_cache, tile_var, animate_var, frame_step, view,
                       messagebox, stored>>

-----------------------------------------------------------------------------
(* SeqTile._load_and_cache on a worker thread of the pool *)

Running(js) == {n \in 1..Len(js) : js[n].pc # "queued"}

\* a worker takes the oldest queued work item when one is idle
CanStart(js, n) ==
    /\ js[n].pc = "queued"
    /\ Cardinality(Running(js)) < MaxWorkers
    /\ \A m \in 1..(n - 1) : js[m].pc # "queued"

\* self.size and self.cache as the job reads them
JobSize(j, ts) == IF j.tile = 0 THEN j.osize ELSE ts[j.tile].size
JobCache(j, ts) == IF j.tile = 0 THEN j.ocache ELSE ts[j.tile].cache

RemoveAt(js, n) == SubSeq(js, 1, n - 1) \o SubSeq(js, n + 1, Len(js))

\* lines 524-525: Image.open(path).convert, resize to (self.size, self.size);
\* on an unreadable file the except clause draws the error text
JobRender(n) ==
    /\ CanStart(jobs, n)
    /\ ticked' = FALSE
    /\ IF jobs[n].path \in corrupt
       THEN /\ jobs' = [jobs EXCEPT ![n].pc = "finally"]
            /\ tiles' = IF jobs[n].tile = 0 THEN tiles
                        ELSE [tiles EXCEPT ![jobs[n].tile].shown = "error"]
       ELSE /\ jobs' = [jobs EXCEPT ![n].pc = "resized",
                                    ![n].box = JobSize(jobs[n], tiles)]
            /\ UNCHANGED tiles
    /\ UNCHANGED <<fs, corrupt, disk, scanned, sequences, current_root, thumb_cache,
                   caches, tile_var, animate_var, frame_step, view, messagebox, stored>>

\* line 526: compose_on_bg(pm, self.size, BG_TILE)
JobCompose(n) ==
    /\ jobs[n].pc = "resized"
    /\ ticked' = FALSE
    /\ jobs' = [jobs EXCEPT ![n].pc = "composed", ![n].csz = JobSize(jobs[n], tiles)]
    /\ UNCHANGED <<fs, corrupt, disk, scanned, sequences, current_root, thumb_cache,
                   caches, tiles, tile_var, animate_var, frame_step, view, messagebox,
                   stored>>

\* a work item that gives up before the put when its tile is out of view
JobPutUnlessHidden(n, outcome) ==
    /\ jobs[n].pc = "composed"
    /\ ticked' = FALSE
    /\ IF jobs[n].tile # 0 /\ ~Visible(tiles, jobs[n].tile, view)
       THEN /\ jobs' = [jobs EXCEPT ![n].pc = "finally"]
            /\ UNCHANGED <<caches, disk, stored, tiles>>
       ELSE /\ caches' = CachePutMem(caches, tiles[jobs[n].tile].cache, jobs[n].path,
                                     jobs[n].frame_idx,
                                     Rendered(jobs[n].path, jobs[n].box, jobs[n].csz))
            /\ disk' = CachePutDisk(caches, disk, tiles[jobs[n].tile].cache, jobs[n].path,
                                    jobs[n].frame_idx,
                                    Rendered(jobs[n].path, jobs[n].box, jobs[n].csz), outcome)
            /\ stored' = stored
            /\ tiles' = [tiles EXCEPT ![jobs[n].tile].shown = "photo",
                                      ![jobs[n].tile].first_loaded = TRUE]
            /\ jobs' = [jobs EXCEPT ![n].pc = "finally"]
    /\ UNCHANGED <<fs, corrupt, scanned, sequences, current_root, thumb_cache,
                   tile_var, animate_var, frame_step, view, messagebox>>

\* lines 527-532: self.cache.put, the draw handed to the event loop,
\* first_loaded = True
JobPut(n, outcome) ==
    LET j == jobs[n]
        c == JobCache(j, tiles)
        img == Rendered(j.path, j.box, j.csz)
    IN  /\ j.pc = "composed"
        /\ ticked' = FALSE
        /\ IF c # NoCache
           THEN /\ caches' = CachePutMem(caches, c, j.path, j.frame_idx, img)
                /\ disk' = CachePutDisk(caches, disk, c, j.path, j.frame_idx, img, outcome)
                /\ stored' = Store(stored, <<c, j.path, j.frame_idx>>,
                                   [img |-> img, outcome |-> outcome])
           ELSE UNCHANGED <<caches, disk, stored>>
        /\ tiles' = IF j.tile = 0 THEN tiles
                    ELSE [tiles EXCEPT ![j.tile].shown = "photo",
                                       ![j.tile].first_loaded = TRUE]
        /\ jobs' = [jobs EXCEPT ![n].pc = "finally"]
        /\ UNCHANGED <<fs, corrupt, scanned, sequences, current_root, thumb_cache,
                       tile_var, animate_var, frame_step, view, messagebox>>

\* lines 535-536: finally: loading_first = False; the work item is done
JobFinally(n) ==
    /\ jobs[n].pc = "finally"
    /\ ticked' = FALSE
    /\ tiles' = IF jobs[n].tile = 0 THEN tiles
                ELSE [tiles EXCEPT ![jobs[n].tile].loading_first = FALSE]
    /\ jobs' = RemoveAt(jobs, n)
    /\ caches' = Collect(caches, thumb_cache, tiles', jobs')
    /\ UNCHANGED <<fs, corrupt, disk, scanned, sequences, current_root, thumb_cache,
                   tile_var, animate_var, frame_step, view, messagebox, stored>>

Render == \E n \in 1..Len(jobs) : JobRender(n)
Compose == \E n \in 1..Len(jobs) : JobCompose(n)
Put == \E n \in 1..Len(jobs) : \E outcome \in SaveOutcomes : JobPut(n, outcome)
PutSaved == \E n \in 1..Len(jobs) : JobPut(n, "saved")
Finally == \E n \in 1..Len(jobs) : JobFinally(n)

-----------------------------------------------------------------------------
(* Specifications *)

\* The wall: one session on the root R, whose two sequences make two tiles;
\* the user scrolls, clicks tiles and plays or pauses; every disk write of
\* the cache succeeds.
LoadWall == current_root = NoRoot /\ LoadFromPath(RootDir)

Next ==
    \/ LoadWall
    \/ SetAnimate
    \/ Scroll
    \/ Click
    \/ Tick
    \/ Render
    \/ Compose
    \/ PutSaved
    \/ Finally

InitWall == Init /\ corrupt \subseteq {PathJoin(RootDir, AppTree[RootDir][1])}

Spec == InitWall /\ [][Next]_vars

\* One cache instance: one session on R/sub (one sequence, one tile) with
\* every outcome of the disk write and every frame step.
LoadSub == current_root = NoRoot /\ LoadFromPath(SubDir)

NextSession ==
    \/ LoadSub
    \/ SetAnimate
    \/ SetFrameStep
    \/ Tick
    \/ Render
    \/ Compose
    \/ Put
    \/ Finally

InitClean == Init /\ corrupt = {}

SpecSession == InitClean /\ [][NextSession]_vars

\* Cache instances replaced: R/sub is loaded and reloaded and the tile size
\* changed, with every outcome of the disk write; nothing is played, so the
\* cache holds first frames.
LoadAny == \E p \in PathInputs \ {RootDir} : LoadFromPath(p)

NextCache ==
    \/ LoadAny
    \/ TypeTileSize
    \/ TileSizeChange
    \/ Tick
    \/ Render
    \/ Compose
    \/ Put
    \/ Finally

SpecCache == InitClean /\ [][NextCache]_vars

-----------------------------------------------------------------------------
(* find_sequences on drawn directory listings *)

a_001_png == Name(<<"a", "_">>, <<"0", "0", "1">>, png)
a_0002_png == Name(<<"a", "_">>, <<"0", "0", "0", "2">>, png)
a_010_png == Name(<<"a", "_">>, <<"0", "1", "0">>, png)
a_dash_001_png == Name(<<"a", "-">>, <<"0", "0", "1">>, png)
a003_PNG == Name(<<"a">>, <<"0", "0", "3">>, <<"P", "N", "G">>)
a_1234567_png == Name(<<"a", "_">>, <<"1", "2", "3", "4", "5", "6", "7">>, png)
a_12_png == Name(<<"a", "_">>, <<"1", "2">>, png)
b_01_jpg == Name(<<"b", "_">>, <<"0", "1">>, jpg)
b_02_jpg == Name(<<"b", "_">>, <<"0", "2">>, jpg)
shot_0007_png == Name(<<"s", "h", "o", "t", "_">>, <<"0", "0", "0", "7">>, png)
a_001_txt == Name(<<"a", "_">>, <<"0", "0", "1">>, <<"t", "x", "t">>)

\* the file names a drawn listing is made of
NamePool ==
    { a_001_png, a_0002_png, a_010_png, a_dash_001_png, a003_PNG,
      a_1234567_png, a_12_png, shot_0007_png, a_001_txt }

Range(q) == {q[i] : i \in 1..Len(q)}

\* the listings of at most n distinct names of the pool, in every order
RECURSIVE Listings(_)
Listings(n) ==
    IF n = 0 THEN {<<>>}
    ELSE LET shorter == Listings(n - 1)
         IN  shorter \cup
             {Append(q, f) : <<q, f>> \in
                 {x \in shorter \X NamePool : x[2] \notin Range(x[1])}}

\* a_001.png .. a_010.png, b_01.jpg, b_02.jpg
ExampleListing ==
    << a_001_png,
       Name(<<"a", "_">>, <<"0", "0", "2">>, png),
       Name(<<"a", "_">>, <<"0", "0", "3">>, png),
       Name(<<"a", "_">>, <<"0", "0", "4">>, png),
       Name(<<"a", "_">>, <<"0", "0", "5">>, png),
       Name(<<"a", "_">>, <<"0", "0", "6">>, png),
       Name(<<"a", "_">>, <<"0", "0", "7">>, png),
       Name(<<"a", "_">>, <<"0", "0", "8">>, png),
       Name(<<"a", "_">>, <<"0", "0", "9">>, png),
       a_010_png, b_01_jpg, b_02_jpg >>

Reverse(q) == [i \in 1..Len(q) |-> q[Len(q) + 1 - i]]

\* what R holds: a drawn listing, or the example folder in either order
RootListings == Listings(MaxFiles) \cup {ExampleListing, Reverse(ExampleListing)}

\* what R/sub holds: nothing, two frames or three frames of a sequence "a"
SubListings ==
    { <<>>, <<a_010_png, a_001_png>>, <<a_010_png, a_001_png, a_0002_png>> }

InitScan ==
    /\ fs \in {[d \in Dirs |-> IF d = RootDir THEN r ELSE u] :
                 <<r, u>> \in RootListings \X SubListings}
    /\ corrupt = {}
    /\ disk = {}
    /\ scanned = <<>>
    /\ sequences = <<>>
    /\ current_root = NoRoot
    /\ thumb_cache = NoCache
    /\ caches = <<>>
    /\ tiles = <<>>
    /\ jobs = <<>>
    /\ tile_var = DefaultTileSize
    /\ animate_var = FALSE
    /\ frame_step = DefaultFrameStep
    /\ view = <<0, 1000>>
    /\ messagebox = FALSE
    /\ ticked = FALSE
    /\ stored = {}

\* line 375 of _scan_and_show for the root p (line 311), with the matches of
\* the loop of lines 42-54 logged
ScanRoot(p) ==
    /\ current_root' = p
    /\ sequences' = find_sequences(p, fs)
    /\ scanned' = MatchLog(Walk(p), fs)
    /\ UNCHANGED <<fs, corrupt, disk, thumb_cache, caches, tiles, jobs, tile_var,
                   animate_var, frame_step, view, messagebox, ticked, stored>>

Scan == \E p \in Dirs : ScanRoot(p)

NextScan == Scan

SpecScan == InitScan /\ [][NextScan]_vars

-----------------------------------------------------------------------------
(* Properties of find_sequences, checked under SpecScan *)

\* the directories the last scan walked
ScannedDirs == Range(Walk(current_root))

\* the (prefix, ext) groups the matching files of directory d fall into
GroupsOf(d) ==
    { <<Classify(f).prefix, Classify(f).ext>> :
        f \in {g \in Range(fs[d]) : Classify(g) # None} }

\* how many files of directory d match with prefix and extension k
GroupSize(d, k) ==
    Cardinality({ i \in 1..Len(fs[d]) :
                    /\ Classify(fs[d][i]) # None
                    /\ Classify(fs[d][i]).prefix = k[1]
                    /\ Classify(fs[d][i]).ext = k[2] })

\* the returned sequences of directory d with prefix and extension k
SequencesOf(d, k) ==
    { i \in 1..Len(sequences) :
        /\ sequences[i].folder = d
        /\ sequences[i].prefix = k[1]
        /\ sequences[i].ext = k[2] }

\* C6: find_sequences returns a sequence for a (directory, prefix, extension)
\* group exactly when the group has at least 3 matching files, and then one
\* sequence holding all of them; every returned sequence has at least 3
\* frames and comes from a group of a walked directory; the folder holding
\* a_001.png .. a_010.png, b_01.jpg and b_02.jpg yields exactly one sequence,
\* the group a with 10 frames.
ThreeFramesMakeASequence ==
    current_root # NoRoot =>
        /\ \A d \in ScannedDirs : \A k \in GroupsOf(d) :
              IF GroupSize(d, k) >= 3
              THEN /\ Cardinality(SequencesOf(d, k)) = 1
                   /\ \A i \in SequencesOf(d, k) :
                         Len(sequences[i].frames) = GroupSize(d, k)
              ELSE SequencesOf(d, k) = {}
        /\ \A i \in 1..Len(sequences) :
              /\ Len(sequences[i].frames) >= 3
              /\ sequences[i].folder \in ScannedDirs
              /\ <<sequences[i].prefix, sequences[i].ext>> \in GroupsOf(sequences[i].folder)
        /\ \A d \in ScannedDirs :
              fs[d] \in {ExampleListing, Reverse(ExampleListing)} =>
                 \E i \in 1..Len(sequences) :
                    /\ sequences[i].folder = d
                    /\ sequences[i].prefix = <<"a">>
                    /\ sequences[i].ext = png
                    /\ Len(sequences[i].frames) = 10
                    /\ \A j \in 1..Len(sequences) : sequences[j].folder = d => j = i

\* a scan of R that found a group of exactly 3 files, returned as a sequence,
\* and under R/sub a group of exactly 2 files, returned as none
GroupOfThreeAndGroupOfTwo ==
    /\ current_root = RootDir
    /\ \E k \in GroupsOf(RootDir) :
          GroupSize(RootDir, k) = 3 /\ SequencesOf(RootDir, k) # {}
    /\ \E k \in GroupsOf(SubDir) :
          GroupSize(SubDir, k) = 2 /\ SequencesOf(SubDir, k) = {}

\* the file name of a frame of a sequence
BaseName(folder, path) == SubSeq(path, Len(folder) + 2, Len(path))

\* the integer index parsed from frame n of sequence s
FrameIndex(s, n) == MatchName(BaseName(s.folder, s.frames[n])).idx

\* C7: in every returned sequence each frame's parsed index is strictly
\* greater than the previous frame's.
FramesStrictlyAscending ==
    \A i \in 1..Len(sequences) :
        \A n \in 1..(Len(sequences[i].frames) - 1) :
            FrameIndex(sequences[i], n) < FrameIndex(sequences[i], n + 1)

\* the position of the dot that starts the extension
LastDot(f) == CHOOSE i \in 1..Len(f) :
                 f[i] = "." /\ \A j \in (i + 1)..Len(f) : f[j] # "."

\* the length of the run of digits immediately before the extension
DigitRun(f) ==
    Cardinality({ n \in 1..(LastDot(f) - 1) :
                    AllDigits(SubSeq(f, LastDot(f) - n, LastDot(f) - 1)) })

\* C8: a file name whose run of digits before the extension has fewer than 3
\* or more than 6 digits is matched by neither pattern and joins no group.
OnlyThreeToSixDigitsMatch ==
    \A i \in 1..Len(scanned) :
        DigitRun(scanned[i].f) >= 3 /\ DigitRun(scanned[i].f) <= 6

\* str(n) for n >= 0 and the format f"{n:0{width}d}"
DigitChar(n) == AsciiOrder[CharCode("0") + n]

RECURSIVE IntToStr(_)
IntToStr(n) ==
    IF n < 10 THEN <<DigitChar(n)>>
    ELSE Append(IntToStr(n \div 10), DigitChar(n % 10))

ZeroPad(n, width) ==
    LET str == IntToStr(n)
    IN  [i \in 1..(width - Len(str)) |-> "0"] \o str

\* C9: every match round-trips: the index zero-padded to the recorded width
\* is the matched digit string, and prefix, digit string, '.', extension
\* concatenated give the file name back; shot_0007.png parses to prefix
\* 'shot_', index 7, width 4.
ParseRoundTrips ==
    \A i \in 1..Len(scanned) :
        LET m == scanned[i]
        IN  /\ ZeroPad(m.idx, m.width) = m.idx_str
            /\ m.prefix \o m.idx_str \o <<".">> \o m.ext = m.f
            /\ m.f = shot_0007_png =>
                  /\ m.prefix = <<"s", "h", "o", "t", "_">>
                  /\ m.idx = 7
                  /\ m.width = 4

-----------------------------------------------------------------------------
(* Properties of the tick loop, checked under Spec *)

\* the work items a step appended to the pool's queue
Submitted == {jobs'[n] : n \in (Len(jobs) + 1)..Len(jobs')}

\* the bounding box of tile i, from its top to its bottom edge, lies outside
\* the visible range
Hidden(i) ==
    \/ TileY(tiles, i) >= view[2]
    \/ TileY(tiles, i) + TileHeight(tiles[i]) <= view[1]

\* C1: a tick submits no load job for a tile whose bounding box does not
\* intersect the visible range and leaves the tile's frame index, its
\* loading_first flag and its first_loaded flag as they were, whatever
\* animate_var and the tile's running flag are.
TickSkipsHiddenTiles ==
    [][Tick =>
         \A i \in 1..Len(tiles) :
            Hidden(i) =>
               /\ tiles'[i].idx = tiles[i].idx
               /\ tiles'[i].loading_first = tiles[i].loading_first
               /\ tiles'[i].first_loaded = tiles[i].first_loaded
               /\ \A j \in Submitted : j.tile # i]_vars

\* after a tick with play on: a hidden tile that is running and has nothing
\* loaded nor loading, next to a visible tile the ticks have advanced
HiddenTileLeftAlone ==
    /\ ticked
    /\ animate_var
    /\ \E i, j \in 1..Len(tiles) :
          /\ Hidden(i)
          /\ tiles[i].running
          /\ ~tiles[i].first_loaded
          /\ ~tiles[i].loading_first
          /\ ~Hidden(j)
          /\ tiles[j].running
          /\ tiles[j].idx # 0

FailedLoadIsNotRetried ==
    [][Tick =>
         \A i \in 1..Len(tiles) :
            tiles[i].shown = "error" =>
               \A j \in Submitted : ~(j.tile = i /\ j.frame_idx = 0)]_vars

-----------------------------------------------------------------------------
(* Properties of ThumbCache, checked under SpecSession and SpecCache *)

\* C3: on a cache instance, once put(path, frame_idx, image) has run, get of
\* the same path and frame returns the stored image from the memory tier,
\* also when the disk write of the put failed or left an unreadable file.
GetAfterPutHitsMemory ==
    \A e \in stored :
        LET c == e[1][1]
            g == CacheGet(caches, disk, c, e[1][2], e[1][3])
        IN  caches[c].live => (g.tier = "mem" /\ g.ph = e[2].img)

\* after a tick with play on that stepped the tile to a frame without
\* submitting a job: the put of that frame failed to write and the disk tier
\* has no file for it
HitAfterFailedDiskWrite ==
    /\ ticked
    /\ animate_var
    /\ jobs = <<>>
    /\ \E e \in stored :
          /\ e[1][1] = thumb_cache
          /\ e[2].outcome = "failed"
          /\ ~Has(disk, DiskPath(caches[e[1][1]], e[1][2], e[1][3]))
          /\ \E i \in 1..Len(tiles) :
                /\ tiles[i].running
                /\ tiles[i].first_loaded
                /\ tiles[i].idx = e[1][3]
                /\ tiles[i].idx # 0
                /\ sequences[i].frames[tiles[i].idx + 1] = e[1][2]

\* C4: two cache instances of the same root and size give every path and
\* frame the same disk file name, and while the file one instance's put wrote
\* is on disk, get on the other returns an image, has the entry in its memory
\* tier afterwards, and a tile on that instance loads its first frame without
\* a job.
SameRootAndSizeShareDisk ==
    \A e \in stored : \A c2 \in 1..Len(caches) :
        LET c1 == e[1][1]
            path == e[1][2]
            frame_idx == e[1][3]
            dp == DiskPath(caches[c1], path, frame_idx)
            g == CacheGet(caches, disk, c2, path, frame_idx)
        IN  (/\ caches[c2].live
             /\ caches[c2].root_dir = caches[c1].root_dir
             /\ caches[c2].size = caches[c1].size) =>
               /\ DiskPath(caches[c2], path, frame_idx) = dp
               /\ (Has(disk, dp) /\ Lookup(disk, dp).ok) =>
                     /\ g.ph # NoImage
                     /\ Has(g.caches[c2].mem, Key(caches[c2], path, frame_idx))
                     /\ \A i \in 1..Len(tiles) :
                           (/\ tiles[i].cache = c2
                            /\ frame_idx = 0
                            /\ sequences[i].frames[1] = path) =>
                              EnsureFirstFrameLoaded(
                                  [tiles |-> tiles, caches |-> caches, jobs |-> jobs],
                                  disk, sequences, i).jobs = jobs

\* after a tick: the cache in use never ran a put, yet holds in memory a first
\* frame that an earlier instance of the same root and size wrote to disk,
\* and its tile shows the frame with no job submitted
SecondInstanceLoadedFromDisk ==
    /\ ticked
    /\ jobs = <<>>
    /\ thumb_cache # NoCache
    /\ \A e \in stored : e[1][1] # thumb_cache
    /\ \E e \in stored :
          /\ caches[e[1][1]].root_dir = caches[thumb_cache].root_dir
          /\ caches[e[1][1]].size = caches[thumb_cache].size
          /\ e[2].outcome = "saved"
          /\ Has(caches[thumb_cache].mem, Key(caches[thumb_cache], e[1][2], e[1][3]))
    /\ \E i \in 1..Len(tiles) :
          /\ tiles[i].cache = thumb_cache
          /\ tiles[i].first_loaded
          /\ tiles[i].shown = "photo"

\* the paths and frame numbers the tiles ask the cache for
CacheRequests ==
    UNION { {<<sequences[i].frames[n], n - 1>> : n \in 1..Len(sequences[i].frames)} :
              i \in 1..Len(sequences) }

\* a put under the size and root of cache c was made for path and frame
StoredUnderSizeOf(c, path, frame_idx) ==
    \E e \in stored :
        /\ e[1][2] = path
        /\ e[1][3] = frame_idx
        /\ caches[e[1][1]].size = caches[c].size
        /\ caches[e[1][1]].root_dir = caches[c].root_dir

\* C5: get on the cache in use returns absent for every path and frame that
\* was never stored under that cache's size: what was stored under another
\* size, in memory or on disk, is not returned.
OtherSizeEntriesAreAbsent ==
    thumb_cache # NoCache =>
        \A r \in CacheRequests :
            ~StoredUnderSizeOf(thumb_cache, r[1], r[2]) =>
                CacheGet(caches, disk, thumb_cache, r[1], r[2]).tier = "none"

\* after on_tile_size_change and a tick: the first frame is on disk under the
\* old size, was never stored under the new one, and the tick's get on the
\* new cache found nothing, so a job was submitted
OldSizeOnDiskNewSizeAbsent ==
    /\ ticked
    /\ thumb_cache # NoCache
    /\ caches[thumb_cache].size = MinTileSize
    /\ \E e \in stored :
          /\ caches[e[1][1]].size # caches[thumb_cache].size
          /\ caches[e[1][1]].root_dir = caches[thumb_cache].root_dir
          /\ Has(disk, DiskPath(caches[e[1][1]], e[1][2], e[1][3]))
          /\ Lookup(disk, DiskPath(caches[e[1][1]], e[1][2], e[1][3])).ok
          /\ ~StoredUnderSizeOf(thumb_cache, e[1][2], e[1][3])
          /\ \E n \in 1..Len(jobs) :
                /\ jobs[n].tile # 0
                /\ tiles[jobs[n].tile].cache = thumb_cache
                /\ jobs[n].path = e[1][2]
                /\ jobs[n].frame_idx = e[1][3]
                /\ jobs[n].pc = "queued"

\* the disk tier holds a readable file for path and frame under cache c
ReadableOnDisk(c, path, frame_idx) ==
    /\ Has(disk, DiskPath(caches[c], path, frame_idx))
    /\ Lookup(disk, DiskPath(caches[c], path, frame_idx)).ok

\* C11: a tick that asks the cache for the first frame of a visible tile that
\* is neither loaded nor loading gets the memory entry on a memory hit; on a
\* memory miss with a readable disk file it gets the file's image, which is in
\* the memory tier afterwards; in both cases the tile is loaded and no job is
\* submitted.  With the key not in memory and no readable file on disk (none,
\* or an unreadable one) the memory tier is left as it was and one job for the
\* frame is submitted.
GetTriesMemoryThenDisk ==
    [][Tick =>
         \A i \in 1..Len(tiles) :
            (~Hidden(i) /\ ~tiles[i].first_loaded /\ ~tiles[i].loading_first
               /\ ~animate_var /\ tiles[i].cache # NoCache) =>
               LET c == tiles[i].cache
                   path == sequences[i].frames[1]
                   k == Key(caches[c], path, 0)
               IN  IF Has(caches[c].mem, k)
                   THEN /\ tiles'[i].first_loaded
                        /\ caches'[c].mem = caches[c].mem
                        /\ \A j \in Submitted : j.tile # i
                   ELSE IF ReadableOnDisk(c, path, 0)
                   THEN /\ tiles'[i].first_loaded
                        /\ caches'[c].mem = caches[c].mem \cup
                              {<<k, Lookup(disk, DiskPath(caches[c], path, 0)).img>>}
                        /\ \A j \in Submitted : j.tile # i
                   ELSE /\ ~tiles'[i].first_loaded
                        /\ tiles'[i].loading_first
                        /\ caches'[c].mem = caches[c].mem
                        /\ Cardinality({n \in (Len(jobs) + 1)..Len(jobs') :
                                          /\ jobs'[n].tile = i
                                          /\ jobs'[n].path = path
                                          /\ jobs'[n].frame_idx = 0}) = 1]_vars

\* after a tick: the disk tier holds an unreadable file for the first frame
\* under the cache in use, the memory tier has no entry for it, and the
\* tick's miss left a job in the queue
UnreadableFileFallsThrough ==
    /\ ticked
    /\ \E i \in 1..Len(tiles) :
          LET c == tiles[i].cache
              path == sequences[i].frames[1]
          IN  /\ c = thumb_cache
              /\ Has(disk, DiskPath(caches[c], path, 0))
              /\ ~Lookup(disk, DiskPath(caches[c], path, 0)).ok
              /\ ~Has(caches[c].mem, Key(caches[c], path, 0))
              /\ tiles[i].loading_first
              /\ \E n \in 1..Len(jobs) :
                    jobs[n].tile = i /\ jobs[n].pc = "queued" /\ jobs[n].frame_idx = 0

\* C12: load_from_path on a path that is empty or no directory shows the
\* error box and leaves current_root, sequences, tiles, thumb_cache, the
\* caches and the queued jobs as they were.
InvalidRootChangesNothing ==
    [][\A p \in PathInputs :
          (LoadFromPath(p) /\ (p = <<>> \/ p \notin Dirs)) =>
             /\ messagebox'
             /\ UNCHANGED <<current_root, sequences, tiles, thumb_cache, caches, jobs,
                            disk>>]_vars

\* the error box is up over a wall that was loaded before and still has its
\* root, its cache and its loaded tile
ErrorBoxOverLoadedWall ==
    /\ messagebox
    /\ current_root = SubDir
    /\ thumb_cache # NoCache
    /\ Len(sequences) = 1
    /\ Len(tiles) = 1
    /\ tiles[1].first_loaded

\* C13: as long as a cache instance exists, no step (tick, get, put, job
\* completion, whatever the disk read or write did) removes a key from its
\* memory tier.
MemoryTierOnlyGrows ==
    [][\A c \in 1..Len(caches) :
          caches'[c].live =>
             \A e \in caches[c].mem : Has(caches'[c].mem, e[1])]_vars

\* the memory tier of the cache in use holds every frame of the sequence,
\* one of them put with a failed disk write and one with an unreadable file
\* left on disk
MemoryTierFullAfterFailures ==
    /\ thumb_cache # NoCache
    /\ Cardinality(caches[thumb_cache].mem) = 3
    /\ \E e \in stored : e[1][1] = thumb_cache /\ e[2].outcome = "failed"
    /\ \E e \in stored : e[1][1] = thumb_cache /\ e[2].outcome = "partial"

-----------------------------------------------------------------------------
(* More properties of the tick loop, checked under Spec *)

\* the frame tile i shows after the step is in the memory tier of its cache
FrameAvailable(i) ==
    /\ tiles'[i].cache # NoCache
    /\ Has(caches'[tiles'[i].cache].mem,
           Key(caches'[tiles'[i].cache],
               sequences[i].frames[tiles'[i].idx + 1], tiles'[i].idx))

\* C14: a tick decodes nothing itself.  It leaves the disk tier and the work
\* items already in the pool as they are; what it adds to the pool are queued
\* work items; what it adds to a memory tier was read from a readable file of
\* the disk tier; and a tile it draws a photo on, marks loaded or steps
\* either has the frame in the memory tier of its cache or has a work item
\* submitted for it.
TickOnlySubmitsOrRedraws ==
    [][Tick =>
         /\ disk' = disk
         /\ stored' = stored
         /\ Len(jobs') >= Len(jobs)
         /\ SubSeq(jobs', 1, Len(jobs)) = jobs
         /\ \A j \in Submitted : j.pc = "queued"
         /\ \A c \in 1..Len(caches) : \A e \in caches'[c].mem :
               \/ e \in caches[c].mem
               \/ /\ Has(disk, <<caches[c].root_dir, e[1]>>)
                  /\ Lookup(disk, <<caches[c].root_dir, e[1]>>) = GoodFile(e[2])
         /\ \A i \in 1..Len(tiles) :
               \/ tiles'[i] = tiles[i]
               \/ \E j \in Submitted :
                     /\ j.tile = i
                     /\ j.frame_idx = tiles'[i].idx
                     /\ j.path = sequences[i].frames[tiles'[i].idx + 1]
               \/ /\ tiles'[i].shown = "photo"
                  /\ FrameAvailable(i)]_vars

\* after a tick with play on: one tile stepped to a frame that was not cached
\* and has a queued work item for it, the other stepped to a cached frame and
\* has none
OneMissOneHit ==
    /\ ticked
    /\ animate_var
    /\ \E i, k \in 1..Len(tiles) :
          /\ i # k
          /\ tiles[i].idx # 0
          /\ \E n \in 1..Len(jobs) :
                /\ jobs[n].tile = i
                /\ jobs[n].frame_idx = tiles[i].idx
                /\ jobs[n].pc = "queued"
          /\ ~Has(caches[tiles[i].cache].mem,
                  Key(caches[tiles[i].cache],
                      sequences[i].frames[tiles[i].idx + 1], tiles[i].idx))
          /\ tiles[k].idx # 0
          /\ tiles[k].running
          /\ ~Hidden(k)
          /\ \A n \in 1..Len(jobs) : jobs[n].tile # k
          /\ Has(caches[tiles[k].cache].mem,
                 Key(caches[tiles[k].cache],
                     sequences[k].frames[tiles[k].idx + 1], tiles[k].idx))

\* the work items of tile i in the pool
JobsOf(i) == {n \in 1..Len(jobs) : jobs[n].tile = i}

\* C15: a tile whose first frame is not loaded has only the work items that
\* ensure_first_frame_loaded submitted, and it has at most one, exactly when
\* loading_first is set; a tick submits for such a tile only when
\* loading_first was clear and no work item of the tile was in the pool, and
\* sets loading_first; and loading_first of a tile is cleared only by the
\* step in which a work item of the tile finishes.
OneFirstFrameJobPerTile ==
    /\ [](\A i \in 1..Len(tiles) :
             ~tiles[i].first_loaded =>
                /\ Cardinality(JobsOf(i)) <= 1
                /\ tiles[i].loading_first <=> JobsOf(i) # {}
                /\ \A n \in JobsOf(i) : jobs[n].frame_idx = 0)
    /\ [][/\ Tick =>
               \A i \in 1..Len(tiles) :
                  (~tiles[i].first_loaded /\ \E j \in Submitted : j.tile = i) =>
                     /\ ~tiles[i].loading_first
                     /\ JobsOf(i) = {}
                     /\ tiles'[i].loading_first
                     /\ Cardinality({n \in (Len(jobs) + 1)..Len(jobs') :
                                       jobs'[n].tile = i}) = 1
          /\ \A i \in 1..Len(tiles) :
                (i <= Len(tiles') /\ tiles[i].loading_first /\ ~tiles'[i].loading_first) =>
                   \E n \in JobsOf(i) :
                      jobs[n].pc = "finally" /\ jobs' = RemoveAt(jobs, n)]_vars

\* after a tick: a tile shows the error text of a failed first-frame load and
\* has the one work item of the next attempt queued, while the other tile's
\* first-frame work item is still in the pool
SecondAttemptAlone ==
    /\ ticked
    /\ \E i, k \in 1..Len(tiles) :
          /\ i # k
          /\ tiles[i].shown = "error"
          /\ ~tiles[i].first_loaded
          /\ tiles[i].loading_first
          /\ Cardinality(JobsOf(i)) = 1
          /\ \A n \in JobsOf(i) : jobs[n].pc = "queued"
          /\ ~tiles[k].first_loaded
          /\ Cardinality(JobsOf(k)) = 1

-----------------------------------------------------------------------------
(* Tile size changes while a sequence plays *)

\* One session on R/sub (one sequence, one tile), played, with the tile size
\* changed once through the spinbox; every disk write of the cache succeeds.
ResizeOnce == Len(caches) = 1 /\ TileSizeChange

NextResize ==
    \/ LoadSub
    \/ SetAnimate
    \/ ResizeOnce
    \/ Tick
    \/ Render
    \/ Compose
    \/ PutSaved
    \/ Finally

SpecResize == InitClean /\ [][NextResize]_vars

\* C16: two work items of one tile for the first frame (the same path, the
\* tile's size, frame index 0) that have not yet written the frame to the
\* cache are never in the pool at the same time.
FirstFrameJobNeverTwice ==
    \A n, m \in 1..Len(jobs) :
        ~(/\ n # m
          /\ jobs[n].tile # 0
          /\ jobs[n].tile = jobs[m].tile
          /\ jobs[n].frame_idx = 0
          /\ jobs[m].frame_idx = 0
          /\ jobs[n].path = jobs[m].path
          /\ jobs[n].pc # "finally"
          /\ jobs[m].pc # "finally")

\* C17: every image held under a key (path, S, frame index), in the memory
\* tier of a cache or in a file of the disk tier, was resized and composed
\* at size S.
EntriesRenderedAtKeySize ==
    /\ \A c \in 1..Len(caches) : \A e \in caches[c].mem :
          e[2].box = e[1][2] /\ e[2].size = e[1][2]
    /\ \A d \in disk :
          d[2].ok => (d[2].img.box = d[1][2][2] /\ d[2].img.size = d[1][2][2])

-----------------------------------------------------------------------------
(* The worker pool under fair scheduling *)

\* the next step of the work item at position n of the pool
WorkerStep(n) ==
    /\ n <= Len(jobs)
    /\ \/ JobRender(n)
       \/ JobCompose(n)
       \/ JobPut(n, "saved")
       \/ JobFinally(n)

\* The wall of Spec, not played: the user scrolls while first frames load.
NextLive ==
    \/ LoadWall
    \/ Scroll
    \/ Tick
    \/ Render
    \/ Compose
    \/ PutSaved
    \/ Finally

\* a worker thread that has a work item keeps running it
Fairness == \A n \in 1..(MaxJobs + 1) : WF_vars(WorkerStep(n))

SpecLive == InitWall /\ [][NextLive]_vars /\ Fairness

\* the tiles of the wall and the first frame of each
WallTiles == 1..Len(find_sequences(RootDir, AppTree))
FirstFrame(i) == find_sequences(RootDir, AppTree)[i].frames[1]

\* C18: no work item is cancelled: a tile that has a work item in the pool
\* gets to have none, and when the first frame is readable the memory tier of
\* the tile's cache then holds the frame, wherever the canvas was scrolled to
\* in between.
JobsRunToCompletion ==
    \A i \in WallTiles :
        /\ (i <= Len(tiles) /\ JobsOf(i) # {}) ~> (JobsOf(i) = {})
        /\ (i <= Len(tiles) /\ JobsOf(i) # {} /\ FirstFrame(i) \notin corrupt)
              ~> (/\ i <= Len(tiles)
                  /\ JobsOf(i) = {}
                  /\ Has(caches[tiles[i].cache].mem,
                         Key(caches[tiles[i].cache], FirstFrame(i), 0)))

\* a tile that is out of view while its work item, submitted when it was in
\* view, has put the frame into the cache and is about to finish
PutWhileOutOfView ==
    \E i \in 1..Len(tiles) :
        /\ Hidden(i)
        /\ ~ticked
        /\ \E n \in JobsOf(i) : jobs[n].pc = "finally"
        /\ tiles[i].first_loaded
        /\ Has(caches[tiles[i].cache].mem,
               Key(caches[tiles[i].cache], sequences[i].frames[1], 0))

-----------------------------------------------------------------------------
(* Frame stepping *)

\* One session on R/sub (one sequence of 3 frames, one tile): the user plays
\* and pauses, clicks the tile, scrolls it in and out of view and sets the
\* frame step; every disk write of the cache succeeds.
NextStep ==
    \/ LoadSub
    \/ SetAnimate
    \/ SetFrameStep
    \/ Scroll
    \/ Click
    \/ Tick
    \/ Render
    \/ Compose
    \/ PutSaved
    \/ Finally

SpecStep == InitClean /\ [][NextStep]_vars

\* first_loaded of tile i as step() finds it in a tick: set before the tick,
\* or set by the tick's ensure_first_frame_loaded on a cache hit
LoadedWhenStepped(i) ==
    \/ tiles[i].first_loaded
    \/ /\ ~tiles[i].loading_first
       /\ tiles[i].cache # NoCache
       /\ CacheGet(caches, disk, tiles[i].cache, sequences[i].frames[1], 0).ph # NoImage

\* the tick steps tile i
Stepped(i) ==
    ~Hidden(i) /\ animate_var /\ tiles[i].running /\ LoadedWhenStepped(i)

\* the frame at the new index of tile i is asked for: drawn from the cache
\* with no work item submitted, or one work item submitted for it
FrameRequested(i) ==
    LET mine == {n \in (Len(jobs) + 1)..Len(jobs') : jobs'[n].tile = i}
    IN  \/ /\ mine = {}
           /\ tiles'[i].shown = "photo"
           /\ FrameAvailable(i)
        \/ /\ Cardinality(mine) = 1
           /\ \A n \in mine :
                 /\ jobs'[n].frame_idx = tiles'[i].idx
                 /\ jobs'[n].path = sequences[i].frames[tiles'[i].idx + 1]

\* the frame index of every tile is within its sequence
IndexInRange ==
    \A i \in 1..Len(tiles) :
        tiles[i].idx >= 0 /\ tiles[i].idx < Len(sequences[i].frames)

\* C19 as amended: a tick sets the frame index of a tile to
\* (index + max(1, frame_step)) modulo the frame count, and asks for that
\* frame, exactly when the tile is visible, play is on, the tile is running
\* and its first frame is loaded when step() runs; otherwise the tick leaves
\* the index alone.  The new index differs from the old one unless
\* max(1, frame_step) is a multiple of the frame count.  The index is always
\* within the sequence.
TickStepsByFrameStep ==
    /\ []IndexInRange
    /\ [][Tick =>
            \A i \in 1..Len(tiles) :
               LET n == Len(sequences[i].frames)
                   step == Max(1, frame_step)
               IN  IF Stepped(i)
                   THEN /\ tiles'[i].idx = (tiles[i].idx + step) % n
                        /\ FrameRequested(i)
                        /\ (tiles'[i].idx # tiles[i].idx) <=> (step % n # 0)
                   ELSE tiles'[i].idx = tiles[i].idx]_vars

\* C19: a tick changes the frame index of a tile if and only if the tile is
\* visible, play is on, the tile is running and its first frame is loaded;
\* the new index is (index + max(1, frame_step)) modulo the frame count and
\* that frame is asked for; the index is always within the sequence.
TickChangesIndexIff ==
    /\ []IndexInRange
    /\ [][Tick =>
            \A i \in 1..Len(tiles) :
               /\ (tiles'[i].idx # tiles[i].idx) <=>
                     (~Hidden(i) /\ animate_var /\ tiles[i].running /\ tiles[i].first_loaded)
               /\ (tiles'[i].idx # tiles[i].idx) =>
                     /\ tiles'[i].idx =
                           (tiles[i].idx + Max(1, frame_step)) % Len(sequences[i].frames)
                     /\ FrameRequested(i)]_vars

\* after a tick with play on and the frame step at the frame count: the
\* visible, running, loaded tile was stepped and is on the frame it was on,
\* one that an earlier tick with another step had taken it to
SteppedInPlace ==
    /\ ticked
    /\ animate_var
    /\ \E i \in 1..Len(tiles) :
          /\ frame_step = Len(sequences[i].frames)
          /\ ~Hidden(i)
          /\ tiles[i].running
          /\ tiles[i].first_loaded
          /\ tiles[i].idx = 1
          /\ JobsOf(i) = {}
          /\ Has(caches[tiles[i].cache].mem,
                 Key(caches[tiles[i].cache], sequences[i].frames[2], 1))

\* C20: after a scan and after a tile size change alike, every tile is in
\* its fresh state: frame index 0, running, first frame neither loaded nor
\* loading.
RebuildGivesFreshTiles ==
    [][((\E p \in Dirs : LoadFromPath(p)) \/ (\E v \in TileVarValues : OnTileSizeChange(v))) =>
          \A i \in 1..Len(tiles') :
             /\ tiles'[i].idx = 0
             /\ tiles'[i].running
             /\ ~tiles'[i].first_loaded
             /\ ~tiles'[i].loading_first]_vars

-----------------------------------------------------------------------------
(* The life of one tile: Unloaded, Loading, Loaded *)

\* One session on R/sub, played, toggled and resized once; the frame that
\* the default frame step reaches first (index 2) may be unreadable.
InitFrames == Init /\ corrupt \subseteq {PathJoin(SubDir, AppTree[SubDir][3])}

NextTile ==
    \/ LoadSub
    \/ SetAnimate
    \/ ResizeOnce
    \/ Click
    \/ Tick
    \/ Render
    \/ Compose
    \/ PutSaved
    \/ Finally

SpecTile == InitFrames /\ [][NextTile]_vars

\* C21: first_loaded of a tile, once set, is set after every step (a tick
\* with or without play, a toggle, a size change, a step of a work item that
\* succeeds or fails, for any frame index), and the frame index of a tile is
\* other than 0 only when first_loaded is set.
LoadedIsAbsorbing ==
    /\ [](\A i \in 1..Len(tiles) : tiles[i].idx # 0 => tiles[i].first_loaded)
    /\ [][\A i \in 1..Len(tiles) :
              (i <= Len(tiles') /\ tiles[i].first_loaded) => tiles'[i].first_loaded]_vars

\* a loaded tile, paused on frame 2 after the work item for that frame
\* failed, resized since it was built
LoadedAfterFailureAndResize ==
    \E i \in 1..Len(tiles) :
        /\ tiles[i].first_loaded
        /\ tiles[i].idx = 2
        /\ tiles[i].shown = "error"
        /\ ~tiles[i].running
        /\ Len(caches) = 2
        /\ JobsOf(i) = {}

-----------------------------------------------------------------------------
(* First frames under fair ticks and fair workers *)

\* _schedule_tick re-arms itself with after(33, ...) at the end of every
\* tick: a tick that stays due is run.
TickFairness == WF_vars(Tick)

\* R/sub, whose first frame may be unreadable, loaded and loaded once more:
\* the user switches play, pauses the tile and scrolls while the tick and the
\* workers are scheduled fairly.
InitSub == Init /\ corrupt \subseteq {PathJoin(SubDir, AppTree[SubDir][1])}

\* the folder loaded a second time: new tiles and a new cache over the disk
\* tier the first session wrote
ReloadOnce == Len(caches) = 1 /\ LoadFromPath(SubDir)

NextEnsure ==
    \/ LoadSub
    \/ ReloadOnce
    \/ SetAnimate
    \/ Scroll
    \/ Click
    \/ Tick
    \/ Render
    \/ Compose
    \/ PutSaved
    \/ Finally

SpecEnsure == InitSub /\ [][NextEnsure]_vars /\ TickFairness /\ Fairness

\* the tiles of that session
SubTiles == 1..Len(find_sequences(SubDir, AppTree))

\* tile i is on the wall, its box meets the visible range and its first
\* frame decodes
StaysLoadable(i) ==
    /\ i <= Len(tiles)
    /\ ~Hidden(i)
    /\ sequences[i].frames[1] \notin corrupt

Settled(i) ==
    /\ i <= Len(tiles)
    /\ tiles[i].first_loaded
    /\ ~tiles[i].loading_first

\* C22: a tile that from some point on stays in the visible range and whose
\* first frame decodes eventually has first_loaded set and loading_first
\* clear, under fair ticks and workers, whatever animate_var and the tile's
\* running flag are and however they change.
VisibleTileGetsLoaded ==
    \A i \in SubTiles : (<>[]StaysLoadable(i)) => <>Settled(i)

\* a tile loaded and settled with play off and the tile paused, never stepped
LoadedWhilePausedAndPlayOff ==
    \E i \in 1..Len(tiles) :
        /\ Settled(i)
        /\ ~Hidden(i)
        /\ sequences[i].frames[1] \notin corrupt
        /\ ~animate_var
        /\ ~tiles[i].running
        /\ tiles[i].idx = 0
        /\ tiles[i].shown = "photo"

\* a tile of the second load settled by the tick that found its first frame
\* in the disk tier: no work item was submitted for it
SettledFromDiskTier ==
    \E i \in 1..Len(tiles) :
        /\ Len(caches) = 2
        /\ Settled(i)
        /\ tiles[i].idx = 0
        /\ ticked
        /\ \A e \in stored : e[1][1] # tiles[i].cache

=============================================================================
